---- MODULE Spec2Model ----
(***************************************************************************)
(* A model of bdlt::Datetime (groups/bdl/bdlt/bdlt_datetime.h): a value    *)
(* composed of a Date part and a Time part, its validity rule, its         *)
(* manipulators, its carry-propagating arithmetic, its comparison          *)
(* operators and its BDEX streaming.                                       *)
(*                                                                         *)
(* Representation.  A Date is its serial day number in the proleptic       *)
(* Gregorian calendar (0001/01/01 is day 1, 9999/12/31 is day 3652059).    *)
(* A Time is its number of milliseconds since midnight, 0 .. 86399999,     *)
(* and 86400000 for the default value 24:00:00.000.  A DatetimeInterval    *)
(* is the pair <<days, msec>> with 0 <= msec < 86400000 that stands for    *)
(* days * 86400000 + msec milliseconds: the 64-bit count is kept as two    *)
(* limbs because the model checker's integers are 32 bits wide.            *)
(*                                                                         *)
(* bdlt::Date, bdlt::Time and bdlt::DatetimeInterval are collaborators     *)
(* whose code is in other components; they are modelled here from their    *)
(* contracts (definitions prefixed Date_, Time_ and Interval_).             *)
(***************************************************************************)
EXTENDS Integers, Sequences, FiniteSets, TLC

VARIABLES dt, pre, op, args, ret, twin, tret, steps, bdex, bdexPre, sent

vars == <<dt, pre, op, args, ret, twin, tret, steps, bdex, bdexPre, sent>>

\* The longest sequence of manipulator calls applied to one object.
MaxSteps == 2

\* The longest sequence of calls in the behaviours with a BDEX stream.
MaxStreamSteps == 3

\* The most bytes a stream holds after a value is written to it.
MaxStreamLen == 14

----------------------------------------------------------------------------
(* Program constants: the private enum of class Datetime.                  *)

k_MILLISECONDS_PER_DAY == 86400000
k_MILLISECONDS_PER_HOUR == 3600000
k_MILLISECONDS_PER_MINUTE == 60000
k_MILLISECONDS_PER_SECOND == 1000

\* enum { k_SUCCESS = 0, k_FAILURE = -1 } of setDatetimeIfValid.
k_SUCCESS == 0
k_FAILURE == -1

----------------------------------------------------------------------------
(* C++ integer arithmetic: '/' truncates toward zero and '%' takes the     *)
(* sign of the dividend.                                                   *)

CDiv(a, b) == IF a >= 0 THEN a \div b ELSE -((-a) \div b)

CMod(a, b) == a - b * CDiv(a, b)

----------------------------------------------------------------------------------------------------------------------------------------
(* bsls::Types::Int64 arithmetic.  The arguments of the adders and their   *)
(* products are 64 bits wide, more than the model checker's integers hold, *)
(* so a wide integer is [neg |-> its sign, mag |-> its magnitude], the     *)
(* magnitude a sequence of WideLimbs limbs of 14 bits, the least           *)
(* significant first.  The operators compute the mathematical value; what  *)
(* a C++ type can hold is decided by Wide_fits.                            *)

WideLimbs == 7

WideBase == 16384

\* The largest factor and divisor of one pass over the limbs; a larger one
\* is a multiple of 1000 (the units of the adders and the milliseconds of a
\* day) and takes two passes.
WideSmall == 131071

Wide_zeroMag == [i \in 1 .. WideLimbs |-> 0]

\* m * k + carry for a magnitude m and k <= WideSmall, limb by limb.
RECURSIVE Wide_mulCarry(_, _, _, _)
Wide_mulCarry(m, k, i, carry) ==
    IF i > Len(m) THEN <<>>
    ELSE LET t == m[i] * k + carry
         IN  <<t % WideBase>> \o Wide_mulCarry(m, k, i + 1, t \div WideBase)

\* Long division of a magnitude by d <= WideSmall, from the most significant
\* limb down: c_i is limb i with the remainder of the limbs above it carried
\* in.  The quotient's limbs and the remainder.
Wide_divStep(m, d) ==
    LET c7 == m[7]
        c6 == (c7 % d) * WideBase + m[6]
        c5 == (c6 % d) * WideBase + m[5]
        c4 == (c5 % d) * WideBase + m[4]
        c3 == (c4 % d) * WideBase + m[3]
        c2 == (c3 % d) * WideBase + m[2]
        c1 == (c2 % d) * WideBase + m[1]
    IN  [quot |-> << c1 \div d, c2 \div d, c3 \div d, c4 \div d,
                     c5 \div d, c6 \div d, c7 \div d >>,
         rem  |-> c1 % d]

Wide_mulMag(m, k) ==
    IF k <= WideSmall THEN Wide_mulCarry(m, k, 1, 0)
    ELSE Wide_mulCarry(Wide_mulCarry(m, k \div 1000, 1, 0), 1000, 1, 0)

\* m = quot * d + rem; for d = 1000 * e, m = q1 * 1000 + r1 and
\* q1 = quot * e + r2 give rem = r2 * 1000 + r1.
Wide_divMag(m, d) ==
    IF d <= WideSmall THEN Wide_divStep(m, d)
    ELSE LET one == Wide_divStep(m, 1000)
             two == Wide_divStep(one.quot, d \div 1000)
         IN  [quot |-> two.quot, rem |-> two.rem * 1000 + one.rem]

\* The value of a magnitude below 2^31.
Wide_magValue(m) == m[1] + WideBase * m[2] + WideBase * WideBase * m[3]

\* The magnitude is below 2^bits.
Wide_magBelow(m, bits) ==
    \A i \in 1 .. Len(m) :
        /\ i > (bits \div 14) + 1 => m[i] = 0
        /\ i = (bits \div 14) + 1 => m[i] < 2 ^ (bits % 14)

\* The magnitude is 2^bits.
Wide_magIsPower(m, bits) ==
    \A i \in 1 .. Len(m) :
        m[i] = IF i = (bits \div 14) + 1 THEN 2 ^ (bits % 14) ELSE 0

Wide_norm(neg, m) == [neg |-> neg /\ m # Wide_zeroMag, mag |-> m]

Wide_fromInt(n) ==
    Wide_norm(n < 0, Wide_mulCarry(Wide_zeroMag, 0, 1, IF n < 0 THEN -n ELSE n))

Wide_neg(w) == Wide_norm(~w.neg, w.mag)

\* w * k for 0 <= k, and w with 0 <= k added to its magnitude.
Wide_mul(w, k) == Wide_norm(w.neg, Wide_mulMag(w.mag, k))

Wide_addToMagnitude(w, k) == Wide_norm(w.neg, Wide_mulCarry(w.mag, 1, 1, k))

\* A signed integer type of the given width holds w.
Wide_fits(w, width) ==
    \/ Wide_magBelow(w.mag, width - 1)
    \/ w.neg /\ Wide_magIsPower(w.mag, width - 1)

\* The int a wide integer of magnitude below 2^31 converts to.
Wide_toInt(w) == IF w.neg THEN -Wide_magValue(w.mag) ELSE Wide_magValue(w.mag)

\* w / d and w % d of C++ for 0 < d: the quotient truncated toward zero, the
\* remainder with the sign of w.
Wide_div(w, d) == Wide_norm(w.neg, Wide_divMag(w.mag, d).quot)

Wide_mod(w, d) ==
    IF w.neg THEN -Wide_divMag(w.mag, d).rem ELSE Wide_divMag(w.mag, d).rem

----------------
(* bdlt::Date, from its contract.                                          *)

Date_isLeapYear(y) == (y % 4 = 0) /\ ((y % 100 # 0) \/ (y % 400 = 0))

Date_daysInMonth(y, m) ==
    IF m = 2 THEN (IF Date_isLeapYear(y) THEN 29 ELSE 28)
    ELSE IF m \in {4, 6, 9, 11} THEN 30 ELSE 31

Date_isValidYearMonthDay(y, m, d) ==
    /\ 1 <= y /\ y <= 9999
    /\ 1 <= m /\ m <= 12
    /\ 1 <= d /\ d <= Date_daysInMonth(y, m)

Date_isValidYearDay(y, doy) ==
    /\ 1 <= y /\ y <= 9999
    /\ 1 <= doy /\ doy <= (IF Date_isLeapYear(y) THEN 366 ELSE 365)

\* Days in the years before year y.
Date_daysBeforeYear(y) ==
    365 * (y - 1) + ((y - 1) \div 4) - ((y - 1) \div 100) + ((y - 1) \div 400)

RECURSIVE Date_daysBeforeMonth(_, _)
Date_daysBeforeMonth(y, m) ==
    IF m <= 1 THEN 0
    ELSE Date_daysInMonth(y, m - 1) + Date_daysBeforeMonth(y, m - 1)

\* Date(year, month, day) and Date::setYearMonthDay.
Date_fromYearMonthDay(y, m, d) ==
    Date_daysBeforeYear(y) + Date_daysBeforeMonth(y, m) + d

\* Date::setYearDay.
Date_fromYearDay(y, doy) == Date_daysBeforeYear(y) + doy

\* Date(): 0001/01/01.
Date_default == Date_fromYearMonthDay(1, 1, 1)

Date_max == Date_fromYearMonthDay(9999, 12, 31)

\* Date::year and Date::dayOfYear, from the serial day number: 146097 days
\* in 400 years, 36524 in 100, 1461 in 4.
Date_yearAndDay(date) ==
    LET n    == date - 1
        n400 == n \div 146097
        r400 == n % 146097
        n100 == IF r400 \div 36524 > 3 THEN 3 ELSE r400 \div 36524
        r100 == r400 - n100 * 36524
        n4   == r100 \div 1461
        r4   == r100 % 1461
        n1   == IF r4 \div 365 > 3 THEN 3 ELSE r4 \div 365
    IN  [year |-> 400 * n400 + 100 * n100 + 4 * n4 + n1 + 1,
         dayOfYear |-> r4 - n1 * 365 + 1]

Date_year(date) == Date_yearAndDay(date).year

Date_dayOfYear(date) == Date_yearAndDay(date).dayOfYear

Date_month(date) ==
    LET y == Date_year(date)
        d == Date_dayOfYear(date)
    IN  CHOOSE m \in 1 .. 12 :
            /\ Date_daysBeforeMonth(y, m) < d
            /\ d <= Date_daysBeforeMonth(y, m) + Date_daysInMonth(y, m)

Date_day(date) ==
    Date_dayOfYear(date)
      - Date_daysBeforeMonth(Date_year(date), Date_month(date))

\* Date::addDaysIfValid returns 0 exactly when the sum is a valid Date.
Date_addDaysIfValid(date, n) ==
    IF 1 <= date + n /\ date + n <= Date_max THEN 0 ELSE -1

----------------------------------------------------------------------------
(* bdlt::Time, from its contract.                                          *)

Time_isValid(h, mi, s, ms) ==
    \/ /\ 0 <= h /\ h < 24
       /\ 0 <= mi /\ mi < 60
       /\ 0 <= s /\ s < 60
       /\ 0 <= ms /\ ms < 1000
    \/ h = 24 /\ mi = 0 /\ s = 0 /\ ms = 0

\* Time(hour, minute, second, millisecond) and Time::setTime.
Time_fromFields(h, mi, s, ms) ==
    h * k_MILLISECONDS_PER_HOUR + mi * k_MILLISECONDS_PER_MINUTE
      + s * k_MILLISECONDS_PER_SECOND + ms

\* Time(): 24:00:00.000.
Time_default == Time_fromFields(24, 0, 0, 0)

Time_zero == Time_fromFields(0, 0, 0, 0)

Time_hour(t) == t \div k_MILLISECONDS_PER_HOUR

Time_minute(t) == (t % k_MILLISECONDS_PER_HOUR) \div k_MILLISECONDS_PER_MINUTE

Time_second(t) == (t % k_MILLISECONDS_PER_MINUTE) \div k_MILLISECONDS_PER_SECOND

Time_millisecond(t) == t % k_MILLISECONDS_PER_SECOND

\* 24:00:00.000 counts as 00:00:00.000 in every manipulator of Time but
\* setHour(24).
Time_zeroIfDefault(t) == IF t = Time_default THEN Time_zero ELSE t

\* Time::setHour: 24 sets every other field to 0.
Time_setHour(t, h) ==
    IF h = 24 THEN Time_default
    ELSE LET u == Time_zeroIfDefault(t)
         IN  Time_fromFields(h, Time_minute(u), Time_second(u), Time_millisecond(u))

Time_setMinute(t, mi) ==
    LET u == Time_zeroIfDefault(t)
    IN  Time_fromFields(Time_hour(u), mi, Time_second(u), Time_millisecond(u))

Time_setSecond(t, s) ==
    LET u == Time_zeroIfDefault(t)
    IN  Time_fromFields(Time_hour(u), Time_minute(u), s, Time_millisecond(u))

Time_setMillisecond(t, ms) ==
    LET u == Time_zeroIfDefault(t)
    IN  Time_fromFields(Time_hour(u), Time_minute(u), Time_second(u), ms)

\* Time::addMilliseconds(int): the time wrapped into one day, and the number
\* of whole days the sum overflowed (or underflowed, when negative).
Time_addMilliseconds(t, n) ==
    LET sum == Time_zeroIfDefault(t) + n
    IN  [time |-> sum % k_MILLISECONDS_PER_DAY,
         days |-> sum \div k_MILLISECONDS_PER_DAY]

----------------------------------------------------------------------------
(* bdlt::DatetimeInterval, from its contract: <<days, msec>>.              *)

Interval_norm(days, msec) ==
    <<days + (msec \div k_MILLISECONDS_PER_DAY), msec % k_MILLISECONDS_PER_DAY>>

\* DatetimeInterval(days, hours, minutes, seconds, milliseconds).
Interval_fromFields(days, h, mi, s, ms) ==
    Interval_norm(days, h * k_MILLISECONDS_PER_HOUR
                          + mi * k_MILLISECONDS_PER_MINUTE
                          + s * k_MILLISECONDS_PER_SECOND + ms)

Interval_add(a, b) == Interval_norm(a[1] + b[1], a[2] + b[2])

Interval_neg(a) == Interval_norm(-a[1], -a[2])

Interval_le(a, b) == a[1] < b[1] \/ (a[1] = b[1] /\ a[2] <= b[2])

\* Time::addInterval: adds the interval, returns the whole days carried.
Time_addInterval(t, iv) ==
    LET r == Time_addMilliseconds(t, iv[2])
    IN  [time |-> r.time, days |-> iv[1] + r.days]

\* operator-(Time, Time): 24:00:00.000 counts as 00:00:00.000.
Time_minus(a, b) ==
    Interval_norm(0, Time_zeroIfDefault(a) - Time_zeroIfDefault(b))

----------------------------------------------------------------------------
(* BDEX streams (package bslx), modelled from their contract.  A stream is *)
(* [valid |-> the stream's validity, data |-> the bytes not yet read]; an  *)
(* output stream appends to data, an input stream reads from its head.     *)
(* Integers are written in big-endian two's complement.                    *)

Stream_empty == [valid |-> TRUE, data |-> <<>>]

Stream_invalidate(s) == [s EXCEPT !.valid = FALSE]

\* putInt24 and putInt32: no effect on an invalid stream.
Stream_put(s, bytes) == IF s.valid THEN [s EXCEPT !.data = @ \o bytes] ELSE s

\* getInt24 and getInt32: no effect on an invalid stream; a stream with fewer
\* than n bytes left is invalidated and nothing is read.
Stream_get(s, n) ==
    IF ~s.valid THEN [stream |-> s, bytes |-> <<>>]
    ELSE IF Len(s.data) < n
         THEN [stream |-> Stream_invalidate(s), bytes |-> <<>>]
         ELSE [stream |-> [s EXCEPT !.data = SubSeq(@, n + 1, Len(@))],
               bytes |-> SubSeq(s.data, 1, n)]

Stream_bytes24(x) == << (x \div 65536) % 256, (x \div 256) % 256, x % 256 >>

Stream_bytes32(x) ==
    << (x \div 16777216) % 256, (x \div 65536) % 256, (x \div 256) % 256,
       x % 256 >>

Stream_int24(b) ==
    (IF b[1] >= 128 THEN b[1] - 256 ELSE b[1]) * 65536 + b[2] * 256 + b[3]

Stream_int32(b) ==
    (IF b[1] >= 128 THEN b[1] - 256 ELSE b[1]) * 16777216
      + b[2] * 65536 + b[3] * 256 + b[4]

\* Date::bdexStreamOut, version 1: the serial date as a 24-bit integer.
Date_bdexStreamOut(s, date) == Stream_put(s, Stream_bytes24(date))

Date_isValidSerial(n) == 1 <= n /\ n <= Date_max

\* Date::bdexStreamIn, version 1: the value read is taken if the stream is
\* still valid and the value is a valid serial date; the stream is
\* invalidated and the date left as it is otherwise.
Date_bdexStreamIn(s, date) ==
    LET r == Stream_get(s, 3)
    IN  IF r.stream.valid /\ Date_isValidSerial(Stream_int24(r.bytes))
        THEN [stream |-> r.stream, date |-> Stream_int24(r.bytes)]
        ELSE [stream |-> Stream_invalidate(r.stream), date |-> date]

\* Time::bdexStreamOut, version 1: the milliseconds since midnight as a
\* 32-bit integer.
Time_bdexStreamOut(s, time) == Stream_put(s, Stream_bytes32(time))

Time_isValidMilliseconds(n) == 0 <= n /\ n <= k_MILLISECONDS_PER_DAY

\* Time::bdexStreamIn, version 1.
Time_bdexStreamIn(s, time) ==
    LET r == Stream_get(s, 4)
    IN  IF r.stream.valid /\ Time_isValidMilliseconds(Stream_int32(r.bytes))
        THEN [stream |-> r.stream, time |-> Stream_int32(r.bytes)]
        ELSE [stream |-> Stream_invalidate(r.stream), time |-> time]

----------------------------------------------------------------------------
(* class Datetime.  A value is [date |-> d_date, time |-> d_time].         *)

\* PRIVATE MANIPULATORS
setTimeToZeroIfDefault(v) ==
    IF Time_default = v.time /\ Date_default = v.date
    THEN [v EXCEPT !.time = Time_zero]
    ELSE v

\* isValid without the test of hour 24 against the date.
isValid_ignoresHour24(year, month, day, hour, minute, second, millisecond) ==
    /\ Date_isValidYearMonthDay(year, month, day)
    /\ Time_isValid(hour, minute, second, millisecond)

\* CLASS METHODS
isValid(year, month, day, hour, minute, second, millisecond) ==
    LET partsValid == /\ Date_isValidYearMonthDay(year, month, day)
                      /\ Time_isValid(hour, minute, second, millisecond)
    IN  IF ~partsValid THEN FALSE
        ELSE IF 24 = hour /\ ~(1 = year /\ 1 = month /\ 1 = day) THEN FALSE
        ELSE TRUE

isValidDateTime(date, time) ==
    IF Time_default = time /\ Date_default # date THEN FALSE ELSE TRUE

\* CREATORS
Datetime == [date |-> Date_default, time |-> Time_default]

DatetimeFromDate(date) == [date |-> date, time |-> Time_fromFields(0, 0, 0, 0)]

DatetimeFromDateTime(date, time) == [date |-> date, time |-> time]

DatetimeFromFields(year, month, day, hour, minute, second, millisecond) ==
    [date |-> Date_fromYearMonthDay(year, month, day),
     time |-> Time_fromFields(hour, minute, second, millisecond)]

\* operator- with the two date parts exchanged.
operatorMinus_swapsDates(lhs, rhs) ==
    LET timeInterval1 == Interval_fromFields(rhs.date - lhs.date, 0, 0, 0, 0)
        timeInterval2 == Time_minus(lhs.time, rhs.time)
    IN  Interval_add(timeInterval1, timeInterval2)

\* operator- with the two time parts exchanged.
operatorMinus_swapsTimes(lhs, rhs) ==
    LET timeInterval1 == Interval_fromFields(lhs.date - rhs.date, 0, 0, 0, 0)
        timeInterval2 == Time_minus(rhs.time, lhs.time)
    IN  Interval_add(timeInterval1, timeInterval2)

\* FREE OPERATORS: the difference of two Datetime values.
operatorMinus(lhs, rhs) ==
    LET timeInterval1 == Interval_fromFields(lhs.date - rhs.date, 0, 0, 0, 0)
        timeInterval2 == Time_minus(lhs.time, rhs.time)
    IN  Interval_add(timeInterval1, timeInterval2)

\* The two assertions that open operator+=, operator-= and addTime.
inRange(v, delta) ==
    /\ Interval_le(delta,
                   operatorMinus(DatetimeFromFields(9999, 12, 31, 23, 59, 59, 999), v))
    /\ Interval_le(operatorMinus(DatetimeFromFields(1, 1, 1, 0, 0, 0, 0), v),
                   delta)

\* MANIPULATORS
operatorAssign(v, rhs) == [date |-> rhs.date, time |-> rhs.time]

operatorPlusAssign(v, rhs) ==
    LET r == Time_addInterval(v.time, rhs)
    IN  [date |-> v.date + r.days, time |-> r.time]

\* operator-= without the negation of rhs.
operatorMinusAssign_addsRhs(v, rhs) ==
    LET r == Time_addInterval(v.time, rhs)
    IN  [date |-> v.date + r.days, time |-> r.time]

operatorMinusAssign(v, rhs) ==
    LET r == Time_addInterval(v.time, Interval_neg(rhs))
    IN  [date |-> v.date + r.days, time |-> r.time]

\* setDatetime setting the fields of the time one by one, the millisecond
\* forgotten.
setDatetime_keepsMillisecond(v, year, month, day, hour, minute, second, millisecond) ==
    [date |-> Date_fromYearMonthDay(year, month, day),
     time |-> IF hour = 24 THEN Time_default
              ELSE Time_fromFields(hour, minute, second,
                                   Time_millisecond(Time_zeroIfDefault(v.time)))]

setDatetime(v, year, month, day, hour, minute, second, millisecond) ==
    [date |-> Date_fromYearMonthDay(year, month, day),
     time |-> Time_fromFields(hour, minute, second, millisecond)]

\* setDatetimeIfValid setting the date part before the time is validated.
setDatetimeIfValid_setsDateFirst(v, year, month, day, hour, minute, second, millisecond) ==
    IF isValid(year, month, day, hour, minute, second, millisecond)
    THEN [val |-> setDatetime(v, year, month, day, hour, minute, second,
                              millisecond),
          ret |-> k_SUCCESS]
    ELSE IF Date_isValidYearMonthDay(year, month, day)
    THEN [val |-> [v EXCEPT !.date = Date_fromYearMonthDay(year, month, day)],
          ret |-> k_FAILURE]
    ELSE [val |-> v, ret |-> k_FAILURE]

\* The value left in the object and the value returned.
setDatetimeIfValid(v, year, month, day, hour, minute, second, millisecond) ==
    IF isValid(year, month, day, hour, minute, second, millisecond)
    THEN [val |-> setDatetime(v, year, month, day, hour, minute, second,
                              millisecond),
          ret |-> k_SUCCESS]
    ELSE [val |-> v, ret |-> k_FAILURE]

\* setDate without the call of setTimeToZeroIfDefault.
setDate_keepsDefaultTime(v, date) == [v EXCEPT !.date = date]

setDate(v, date) == [setTimeToZeroIfDefault(v) EXCEPT !.date = date]

\* setYearDay setting the time to 00:00:00.000 whatever it was.
setYearDay_resetsTime(v, year, dayOfYear) ==
    [date |-> Date_fromYearDay(year, dayOfYear), time |-> Time_zero]

setYearDay(v, year, dayOfYear) ==
    [setTimeToZeroIfDefault(v) EXCEPT !.date = Date_fromYearDay(year, dayOfYear)]

\* setYearMonthDay without the call of setTimeToZeroIfDefault.
setYearMonthDay_keepsDefaultTime(v, year, month, day) ==
    [v EXCEPT !.date = Date_fromYearMonthDay(year, month, day)]

setYearMonthDay(v, year, month, day) ==
    [setTimeToZeroIfDefault(v) EXCEPT
        !.date = Date_fromYearMonthDay(year, month, day)]

setTime(v, time) == [v EXCEPT !.time = time]

setTimeFields(v, hour, minute, second, millisecond) ==
    [v EXCEPT !.time = Time_fromFields(hour, minute, second, millisecond)]

setHour(v, hour) == [v EXCEPT !.time = Time_setHour(v.time, hour)]

setMinute(v, minute) == [v EXCEPT !.time = Time_setMinute(v.time, minute)]

\* setSecond calling setMinute of the time part.
setSecond_callsSetMinute(v, second) == [v EXCEPT !.time = Time_setMinute(v.time, second)]

setSecond(v, second) == [v EXCEPT !.time = Time_setSecond(v.time, second)]

setMillisecond(v, millisecond) ==
    [v EXCEPT !.time = Time_setMillisecond(v.time, millisecond)]

\* addDays returning at once when there is no day to add.
addDays_zeroIsNoOp(v, days) ==
    IF days = 0 THEN v
    ELSE LET w == setTimeToZeroIfDefault(v)
         IN  [w EXCEPT !.date = w.date + days]

\* addDays without the call of setTimeToZeroIfDefault.
addDays_keepsDefaultTime(v, days) == [v EXCEPT !.date = v.date + days]

addDays(v, days) ==
    LET w == setTimeToZeroIfDefault(v)
    IN  [w EXCEPT !.date = w.date + days]

addTime(v, hours, minutes, seconds, milliseconds) ==
    LET delta == Interval_fromFields(0, hours, minutes, seconds, milliseconds)
        r     == Time_addInterval(v.time, delta)
    IN  [date |-> v.date + r.days, time |-> r.time]

\* The decomposition with a floor-style quotient and remainder.
msecDecomposition_floor(totalMsec) ==
    [normMsec  |-> totalMsec % k_MILLISECONDS_PER_DAY,
     wholeDays |-> totalMsec \div k_MILLISECONDS_PER_DAY]

\* The locals normMsec and wholeDays of addHours, addMinutes, addSeconds and
\* addMilliseconds: the remainder and the quotient of the C++ operators %
\* and /, which truncate toward zero.
msecDecomposition(totalMsec) ==
    [normMsec  |-> CMod(totalMsec, k_MILLISECONDS_PER_DAY),
     wholeDays |-> CDiv(totalMsec, k_MILLISECONDS_PER_DAY)]

\* The decomposition with the carry returned by the time part dropped.
addTotalMsec_dropsCarry(v, totalMsec) ==
    LET normMsec  == CMod(totalMsec, k_MILLISECONDS_PER_DAY)
        wholeDays == CDiv(totalMsec, k_MILLISECONDS_PER_DAY)
        r         == Time_addMilliseconds(v.time, normMsec)
    IN  [time |-> r.time, numDays |-> wholeDays]

\* The decomposition shared by addHours, addMinutes, addSeconds and
\* addMilliseconds: the new time part and the number of days to add.  The
\* arguments of the model keep totalMsec, normMsec and wholeDays within 32
\* bits, so the narrowing casts change nothing.
addTotalMsec(v, totalMsec) ==
    LET normMsec  == msecDecomposition(totalMsec).normMsec
        wholeDays == msecDecomposition(totalMsec).wholeDays
        r         == Time_addMilliseconds(v.time, normMsec)
    IN  [time |-> r.time, numDays |-> wholeDays + r.days]

\* addHours with the whole days of totalMsec left out of numDays.
addHours_dropsWholeDays(v, hours) ==
    LET totalMsec == hours * k_MILLISECONDS_PER_HOUR
        r == Time_addMilliseconds(v.time,
                                  CMod(totalMsec, k_MILLISECONDS_PER_DAY))
    IN  [date |-> v.date + r.days, time |-> r.time]

addHours(v, hours) ==
    LET a == addTotalMsec(v, hours * k_MILLISECONDS_PER_HOUR)
    IN  [date |-> v.date + a.numDays, time |-> a.time]

\* addMinutes scaling by the milliseconds of a second.
addMinutes_wrongUnit(v, minutes) ==
    LET a == addTotalMsec(v, minutes * k_MILLISECONDS_PER_SECOND)
    IN  [date |-> v.date + a.numDays, time |-> a.time]

addMinutes(v, minutes) ==
    LET a == addTotalMsec(v, minutes * k_MILLISECONDS_PER_MINUTE)
    IN  [date |-> v.date + a.numDays, time |-> a.time]

addSeconds(v, seconds) ==
    LET a == addTotalMsec(v, seconds * k_MILLISECONDS_PER_SECOND)
    IN  [date |-> v.date + a.numDays, time |-> a.time]

\* addMilliseconds with a floor-style remainder beside the truncated quotient.
addMilliseconds_floorRemainder(v, milliseconds) ==
    LET normMsec  == milliseconds % k_MILLISECONDS_PER_DAY
        wholeDays == CDiv(milliseconds, k_MILLISECONDS_PER_DAY)
        r         == Time_addMilliseconds(v.time, normMsec)
    IN  [date |-> v.date + wholeDays + r.days, time |-> r.time]

addMilliseconds(v, milliseconds) ==
    LET a == addTotalMsec(v, milliseconds)
    IN  [date |-> v.date + a.numDays, time |-> a.time]

\* ACCESSORS
Datetime_date(v) == v.date

Datetime_time(v) == v.time

Datetime_year(v) == Date_year(v.date)

Datetime_month(v) == Date_month(v.date)

Datetime_day(v) == Date_day(v.date)

Datetime_dayOfYear(v) == Date_dayOfYear(v.date)

Datetime_hour(v) == Time_hour(v.time)

Datetime_minute(v) == Time_minute(v.time)

Datetime_second(v) == Time_second(v.time)

Datetime_millisecond(v) == Time_millisecond(v.time)

\* The seven attributes, in the order of the constructor's parameters.
Datetime_fields(v) ==
    << Datetime_year(v), Datetime_month(v), Datetime_day(v), Datetime_hour(v),
       Datetime_minute(v), Datetime_second(v), Datetime_millisecond(v) >>

\* The assertion of addHours, addMinutes, addSeconds and addMilliseconds:
\* 0 == Date(d_date).addDaysIfValid(numDays).
addHoursInRange(v, hours) ==
    0 = Date_addDaysIfValid(
            v.date, addTotalMsec(v, hours * k_MILLISECONDS_PER_HOUR).numDays)

addMinutesInRange(v, minutes) ==
    0 = Date_addDaysIfValid(
            v.date, addTotalMsec(v, minutes * k_MILLISECONDS_PER_MINUTE).numDays)

addSecondsInRange(v, seconds) ==
    0 = Date_addDaysIfValid(
            v.date, addTotalMsec(v, seconds * k_MILLISECONDS_PER_SECOND).numDays)

addMillisecondsInRange(v, milliseconds) ==
    0 = Date_addDaysIfValid(v.date, addTotalMsec(v, milliseconds).numDays)

\* The contract of the four scalar adders for an argument of any size: the
\* value that results, date(v) and time(v) moved by n * unit milliseconds,
\* is in the valid range of Datetime.  The whole days of a delta in range are
\* fewer than 2^23.
scalarAdderInContract(v, n, unit) ==
    LET delta == Wide_mul(n, unit)
        days  == Wide_div(delta, k_MILLISECONDS_PER_DAY)
        carry == Time_addMilliseconds(v.time,
                     Wide_mod(delta, k_MILLISECONDS_PER_DAY)).days
    IN  /\ Wide_magBelow(days.mag, 23)
        /\ 0 = Date_addDaysIfValid(v.date, Wide_toInt(days) + carry)

\* The scalar adders with totalMsec declared int.
scalarAdderWidths_intTotalMsec(v, n, unit) ==
    LET totalMsec == Wide_mul(n, unit)
        normMsec  == Wide_mod(totalMsec, k_MILLISECONDS_PER_DAY)
        wholeDays == Wide_div(totalMsec, k_MILLISECONDS_PER_DAY)
        carry     == Time_addMilliseconds(v.time, normMsec).days
    IN  [totalMsecFits |-> Wide_fits(totalMsec, 32),
         normMsecFits  |-> Wide_fits(Wide_fromInt(normMsec), 32),
         wholeDaysFits |-> Wide_fits(wholeDays, 32),
         numDaysFits   |->
             /\ Wide_fits(wholeDays, 32)
             /\ ~(carry = 1 /\ wholeDays = Wide_fromInt(2147483647))
             /\ ~(carry = -1 /\ ~Wide_magBelow(wholeDays.mag, 31)),
         normMsec |-> normMsec,
         wholeDays |-> wholeDays,
         carry |-> carry]

\* The integer values of addHours, addMinutes, addSeconds and
\* addMilliseconds and whether their types hold them: totalMsec, the product
\* of the argument and the unit, in bsls::Types::Int64; normMsec and
\* wholeDays, cast to int; numDays, the int sum of wholeDays and the carry
\* returned by the time part.
scalarAdderWidths(v, n, unit) ==
    LET totalMsec == Wide_mul(n, unit)
        normMsec  == Wide_mod(totalMsec, k_MILLISECONDS_PER_DAY)
        wholeDays == Wide_div(totalMsec, k_MILLISECONDS_PER_DAY)
        carry     == Time_addMilliseconds(v.time, normMsec).days
    IN  [totalMsecFits |-> Wide_fits(totalMsec, 64),
         normMsecFits  |-> Wide_fits(Wide_fromInt(normMsec), 32),
         wholeDaysFits |-> Wide_fits(wholeDays, 32),
         numDaysFits   |->
             /\ Wide_fits(wholeDays, 32)
             /\ ~(carry = 1 /\ wholeDays = Wide_fromInt(2147483647))
             /\ ~(carry = -1 /\ ~Wide_magBelow(wholeDays.mag, 31)),
         normMsec |-> normMsec,
         wholeDays |-> wholeDays,
         carry |-> carry]

\* Every type holds its value.
allFit(w) ==
    w.totalMsecFits /\ w.normMsecFits /\ w.wholeDaysFits /\ w.numDaysFits

\* The object after a scalar adder in which every type holds its value.
scalarAdderInt64(v, n, unit) ==
    LET w       == scalarAdderWidths(v, n, unit)
        numDays == Wide_toInt(w.wholeDays) + w.carry
    IN  [date |-> v.date + numDays,
         time |-> Time_addMilliseconds(v.time, w.normMsec).time]

\* Aspects
maxSupportedBdexVersion(versionSelector) == 1

\* bdexStreamIn taking every version from 1 on as version 1.
bdexStreamIn_acceptsNewerVersions(v, stream, version) ==
    IF stream.valid
    THEN IF version >= 1
         THEN LET dateTmp == Date_bdexStreamIn(stream, Date_default)
                  timeTmp == Time_bdexStreamIn(dateTmp.stream, Time_default)
              IN  IF timeTmp.stream.valid
                  THEN [val |-> [date |-> dateTmp.date, time |-> timeTmp.time],
                        stream |-> timeTmp.stream]
                  ELSE [val |-> v, stream |-> Stream_invalidate(timeTmp.stream)]
         ELSE [val |-> v, stream |-> Stream_invalidate(stream)]
    ELSE [val |-> v, stream |-> stream]

\* bdexStreamIn reading the date into d_date itself, not into dateTmp.
bdexStreamIn_readsIntoDate(v, stream, version) ==
    IF stream.valid
    THEN IF version = 1
         THEN LET dateTmp == Date_bdexStreamIn(stream, v.date)
                  timeTmp == Time_bdexStreamIn(dateTmp.stream, Time_default)
              IN  IF timeTmp.stream.valid
                  THEN [val |-> [date |-> dateTmp.date, time |-> timeTmp.time],
                        stream |-> timeTmp.stream]
                  ELSE [val |-> [v EXCEPT !.date = dateTmp.date],
                        stream |-> Stream_invalidate(timeTmp.stream)]
         ELSE [val |-> v, stream |-> Stream_invalidate(stream)]
    ELSE [val |-> v, stream |-> stream]

\* bdexStreamIn assigning dateTmp and timeTmp whether or not the stream is
\* still valid after the two reads.
bdexStreamIn_assignsOnFailure(v, stream, version) ==
    IF stream.valid
    THEN IF version = 1
         THEN LET dateTmp == Date_bdexStreamIn(stream, Date_default)
                  timeTmp == Time_bdexStreamIn(dateTmp.stream, Time_default)
              IN  [val |-> [date |-> dateTmp.date, time |-> timeTmp.time],
                   stream |-> IF timeTmp.stream.valid THEN timeTmp.stream
                              ELSE Stream_invalidate(timeTmp.stream)]
         ELSE [val |-> v, stream |-> Stream_invalidate(stream)]
    ELSE [val |-> v, stream |-> stream]

\* bdexStreamIn: the object after the call and the stream after the call.
bdexStreamIn(v, stream, version) ==
    IF stream.valid
    THEN IF version = 1
         THEN LET dateTmp == Date_bdexStreamIn(stream, Date_default)
                  timeTmp == Time_bdexStreamIn(dateTmp.stream, Time_default)
              IN  IF timeTmp.stream.valid
                  THEN [val |-> [date |-> dateTmp.date, time |-> timeTmp.time],
                        stream |-> timeTmp.stream]
                  ELSE [val |-> v, stream |-> Stream_invalidate(timeTmp.stream)]
         ELSE [val |-> v, stream |-> Stream_invalidate(stream)]
    ELSE [val |-> v, stream |-> stream]

\* bdexStreamOut writing the time before the date.
bdexStreamOut_timeFirst(v, stream, version) ==
    IF stream.valid
    THEN IF version = 1
         THEN Date_bdexStreamOut(Time_bdexStreamOut(stream, v.time), v.date)
         ELSE Stream_invalidate(stream)
    ELSE stream

\* bdexStreamOut: the stream after the call.
bdexStreamOut(v, stream, version) ==
    IF stream.valid
    THEN IF version = 1
         THEN Time_bdexStreamOut(Date_bdexStreamOut(stream, v.date), v.time)
         ELSE Stream_invalidate(stream)
    ELSE stream

\* FREE OPERATORS
operatorPlus(lhs, rhs) == operatorPlusAssign(lhs, rhs)

operatorPlusIntervalFirst(lhs, rhs) == operatorPlusAssign(rhs, lhs)

operatorMinusInterval(lhs, rhs) == operatorMinusAssign(lhs, rhs)

\* operator== comparing the values after the default time is read as 0.
operatorEq_normalized(lhs, rhs) ==
    LET l == setTimeToZeroIfDefault(lhs)
        r == setTimeToZeroIfDefault(rhs)
    IN  l.date = r.date /\ l.time = r.time

operatorEq(lhs, rhs) == lhs.date = rhs.date /\ lhs.time = rhs.time

operatorNe(lhs, rhs) == lhs.date # rhs.date \/ lhs.time # rhs.time

\* The assertion of the four ordering operators: neither time is the default
\* Time.
orderable(lhs, rhs) == lhs.time # Time_default /\ rhs.time # Time_default

\* operator< comparing the times first and the dates on equal times.
operatorLt_timeFirst(lhs, rhs) ==
    lhs.time < rhs.time \/ (lhs.time = rhs.time /\ lhs.date < rhs.date)

operatorLt(lhs, rhs) ==
    lhs.date < rhs.date \/ (lhs.date = rhs.date /\ lhs.time < rhs.time)

operatorLe(lhs, rhs) ==
    lhs.date < rhs.date \/ (lhs.date = rhs.date /\ lhs.time <= rhs.time)

\* operator> with the comparison of the times taken from operator>=.
operatorGt_orEqualTime(lhs, rhs) ==
    lhs.date > rhs.date \/ (lhs.date = rhs.date /\ lhs.time >= rhs.time)

operatorGt(lhs, rhs) ==
    lhs.date > rhs.date \/ (lhs.date = rhs.date /\ lhs.time > rhs.time)

operatorGe(lhs, rhs) ==
    lhs.date > rhs.date \/ (lhs.date = rhs.date /\ lhs.time >= rhs.time)

----------------------------------------------------------------------------
(* The arguments the calls are made with.                                  *)

\* (year, month, day) triples that are valid dates.
ValidYMD ==
    { <<1, 1, 1>>, <<1, 1, 2>>, <<2012, 2, 29>>, <<2013, 1, 6>>,
      <<9999, 12, 31>> }

\* (year, month, day) triples that are not.
InvalidYMD ==
    { <<0, 1, 1>>, <<10000, 1, 1>>, <<2013, 13, 1>>, <<2013, 1, 0>>,
      <<2013, 2, 29>>, <<2013, 4, 31>> }

\* More of them, for the class method isValid.
MoreInvalidYMD == { <<2013, 0, 1>>, <<1900, 2, 29>>, <<1, 1, 32>>, <<-1, 1, 1>> }

\* (hour, minute, second, millisecond) tuples that are valid times.
ValidHMSM ==
    { <<0, 0, 0, 0>>, <<20, 43, 0, 0>>, <<23, 59, 59, 999>>, <<24, 0, 0, 0>> }

\* (hour, minute, second, millisecond) tuples that are not.
InvalidHMSM ==
    { <<-1, 0, 0, 0>>, <<25, 0, 0, 0>>, <<24, 0, 0, 1>>, <<24, 1, 0, 0>>,
      <<23, 60, 0, 0>>, <<23, 59, 60, 0>>, <<23, 59, 59, 1000>> }

\* More of them, for the class method isValid.
MoreInvalidHMSM ==
    { <<24, 0, 1, 0>>, <<0, -1, 0, 0>>, <<0, 0, -1, 0>>, <<0, 0, 0, -1>> }

DateArgs == { Date_fromYearMonthDay(t[1], t[2], t[3]) : t \in ValidYMD }

TimeArgs == { Time_fromFields(t[1], t[2], t[3], t[4]) : t \in ValidHMSM }

YearDayArgs == { <<1, 1>>, <<2012, 366>>, <<2013, 6>>, <<9999, 365>> }

HourArgs == { 0, 2, 23, 24 }

MinuteArgs == { 0, 59 }

SecondArgs == { 0, 59 }

MillisecondArgs == { 0, 999 }

DaysArgs == { -1, 0, 1, 10 }

AddTimeArgs ==
    { <<0, 0, 0, 0>>, <<6, 0, 9, 0>>, <<-246, 0, -10, 1000>>, <<24, 0, 0, 0>>,
      <<0, -1, 0, 1>>, <<-1, 61, -59, -1001>> }

AddHoursArgs == { -246, -24, -1, 0, 6, 24, 240 }

AddMinutesArgs == { -1441, -1, 0, 1, 1440 }

AddSecondsArgs == { -86401, -10, 0, 9, 86400 }

AddMillisecondsArgs == { -86400001, -1000, -1, 0, 1, 999, 86400000 }

\* Intervals, as (days, hours, minutes, seconds, milliseconds).
IntervalArgs ==
    { Interval_fromFields(t[1], t[2], t[3], t[4], t[5]) :
        t \in { <<0, 0, 0, 0, 0>>, <<0, 0, 0, 0, 1>>, <<0, 0, 0, 0, -1>>,
                <<0, 6, 0, 9, 0>>, <<1, 0, 0, 0, 0>>, <<-1, 0, 0, 0, -1>>,
                <<10, 0, 0, 0, 0>>, <<0, -246, 0, -10, 1000>> } }

----------------------------------------------------------------------------
(* The state: the object dt; the call made last (op, args), the value pre  *)
(* the object had before it and the value ret it returned (0 for a void    *)
(* call, the result for isValid and operator-); and twin, tret: the        *)
(* outcome of the same call on Datetime(1, 1, 1, 0, 0, 0, 0) when pre was  *)
(* the default value, on pre itself otherwise.                             *)

zeroTwin(v) ==
    IF v = Datetime THEN DatetimeFromFields(1, 1, 1, 0, 0, 0, 0) ELSE v

Created(name, a, v) ==
    /\ dt = v
    /\ pre = v
    /\ op = name
    /\ args = a
    /\ ret = 0
    /\ twin = v
    /\ tret = 0
    /\ steps = 0
    /\ bdex = Stream_empty
    /\ sent = <<>>
    /\ bdexPre = [stream |-> Stream_empty, sent |-> <<>>]

Init ==
    \/ Created("Datetime", <<>>, Datetime)
    \/ \E date \in DateArgs :
          Created("DatetimeFromDate", <<date>>, DatetimeFromDate(date))
    \/ \E date \in DateArgs, time \in TimeArgs :
          /\ isValidDateTime(date, time)
          /\ Created("DatetimeFromDateTime", <<date, time>>,
                     DatetimeFromDateTime(date, time))
    \/ \E d \in ValidYMD, t \in ValidHMSM :
          /\ isValid(d[1], d[2], d[3], t[1], t[2], t[3], t[4])
          /\ Created("DatetimeFromFields", d \o t,
                     DatetimeFromFields(d[1], d[2], d[3], t[1], t[2], t[3], t[4]))

\* A call is made on an object at rest: the record of the call before it
\* has been dropped (Return).
Called(name, a, v, r, tv, tr) ==
    /\ pre' = dt
    /\ op' = name
    /\ args' = a
    /\ dt' = v
    /\ ret' = r
    /\ twin' = tv
    /\ tret' = tr
    /\ steps' = steps + 1
    /\ bdexPre' = [stream |-> bdex, sent |-> sent]
    /\ UNCHANGED <<bdex, sent>>

AtRest == op = "" /\ steps < MaxSteps

\* The caller moves on: the object keeps its value, the record of the call
\* is dropped.
Return ==
    /\ op # ""
    /\ op' = ""
    /\ args' = <<>>
    /\ pre' = dt
    /\ ret' = 0
    /\ twin' = dt
    /\ tret' = 0
    /\ bdexPre' = [stream |-> bdex, sent |-> sent]
    /\ UNCHANGED <<dt, steps, bdex, sent>>

OperatorPlusAssign ==
    /\ AtRest
    /\ \E rhs \in IntervalArgs :
       /\ inRange(dt, rhs)
       /\ Called("operator+=", rhs, operatorPlusAssign(dt, rhs), 0,
                 operatorPlusAssign(zeroTwin(dt), rhs), 0)

OperatorMinusAssign ==
    /\ AtRest
    /\ \E rhs \in IntervalArgs :
       /\ inRange(dt, Interval_neg(rhs))
       /\ Called("operator-=", rhs, operatorMinusAssign(dt, rhs), 0,
                 operatorMinusAssign(zeroTwin(dt), rhs), 0)

SetDatetime ==
    /\ AtRest
    /\ \E d \in ValidYMD, t \in ValidHMSM :
       /\ isValid(d[1], d[2], d[3], t[1], t[2], t[3], t[4])
       /\ Called("setDatetime", d \o t,
                 setDatetime(dt, d[1], d[2], d[3], t[1], t[2], t[3], t[4]), 0,
                 setDatetime(zeroTwin(dt), d[1], d[2], d[3], t[1], t[2], t[3], t[4]),
                 0)

SetDatetimeIfValid ==
    /\ AtRest
    /\ \E d \in ValidYMD \cup InvalidYMD, t \in ValidHMSM \cup InvalidHMSM :
       LET r == setDatetimeIfValid(dt, d[1], d[2], d[3], t[1], t[2], t[3], t[4])
           z == setDatetimeIfValid(zeroTwin(dt), d[1], d[2], d[3],
                                   t[1], t[2], t[3], t[4])
       IN  Called("setDatetimeIfValid", d \o t, r.val, r.ret, z.val, z.ret)

SetDate ==
    /\ AtRest
    /\ \E date \in DateArgs :
       Called("setDate", <<date>>, setDate(dt, date), 0,
              setDate(zeroTwin(dt), date), 0)

SetYearDay ==
    /\ AtRest
    /\ \E a \in YearDayArgs :
       /\ Date_isValidYearDay(a[1], a[2])
       /\ Called("setYearDay", a, setYearDay(dt, a[1], a[2]), 0,
                 setYearDay(zeroTwin(dt), a[1], a[2]), 0)

SetYearMonthDay ==
    /\ AtRest
    /\ \E d \in ValidYMD :
       /\ Date_isValidYearMonthDay(d[1], d[2], d[3])
       /\ Called("setYearMonthDay", d, setYearMonthDay(dt, d[1], d[2], d[3]), 0,
                 setYearMonthDay(zeroTwin(dt), d[1], d[2], d[3]), 0)

SetTime ==
    /\ AtRest
    /\ \E time \in TimeArgs :
       /\ isValidDateTime(dt.date, time)
       /\ Called("setTime", <<time>>, setTime(dt, time), 0,
                 setTime(zeroTwin(dt), time), 0)

SetTimeFields ==
    /\ AtRest
    /\ \E t \in ValidHMSM :
       /\ Time_isValid(t[1], t[2], t[3], t[4])
       /\ isValidDateTime(dt.date, Time_fromFields(t[1], t[2], t[3], t[4]))
       /\ Called("setTimeFields", t, setTimeFields(dt, t[1], t[2], t[3], t[4]), 0,
                 setTimeFields(zeroTwin(dt), t[1], t[2], t[3], t[4]), 0)

SetHour ==
    /\ AtRest
    /\ \E hour \in HourArgs :
       /\ 0 <= hour /\ hour <= 24
       /\ 24 # hour \/ Date_default = dt.date
       /\ Called("setHour", <<hour>>, setHour(dt, hour), 0,
                 setHour(zeroTwin(dt), hour), 0)

SetMinute ==
    /\ AtRest
    /\ \E minute \in MinuteArgs :
       /\ 0 <= minute /\ minute <= 59
       /\ Called("setMinute", <<minute>>, setMinute(dt, minute), 0,
                 setMinute(zeroTwin(dt), minute), 0)

SetSecond ==
    /\ AtRest
    /\ \E second \in SecondArgs :
       /\ 0 <= second /\ second <= 59
       /\ Called("setSecond", <<second>>, setSecond(dt, second), 0,
                 setSecond(zeroTwin(dt), second), 0)

SetMillisecond ==
    /\ AtRest
    /\ \E millisecond \in MillisecondArgs :
       /\ 0 <= millisecond /\ millisecond <= 999
       /\ Called("setMillisecond", <<millisecond>>,
                 setMillisecond(dt, millisecond), 0,
                 setMillisecond(zeroTwin(dt), millisecond), 0)

AddDays ==
    /\ AtRest
    /\ \E days \in DaysArgs :
       /\ 0 = Date_addDaysIfValid(dt.date, days)
       /\ Called("addDays", <<days>>, addDays(dt, days), 0,
                 addDays(zeroTwin(dt), days), 0)

AddTime ==
    /\ AtRest
    /\ \E a \in AddTimeArgs :
       /\ inRange(dt, Interval_fromFields(0, a[1], a[2], a[3], a[4]))
       /\ Called("addTime", a, addTime(dt, a[1], a[2], a[3], a[4]), 0,
                 addTime(zeroTwin(dt), a[1], a[2], a[3], a[4]), 0)

AddHours ==
    /\ AtRest
    /\ \E hours \in AddHoursArgs :
       /\ addHoursInRange(dt, hours)
       /\ Called("addHours", <<hours>>, addHours(dt, hours), 0,
                 addHours(zeroTwin(dt), hours), 0)

AddMinutes ==
    /\ AtRest
    /\ \E minutes \in AddMinutesArgs :
       /\ addMinutesInRange(dt, minutes)
       /\ Called("addMinutes", <<minutes>>, addMinutes(dt, minutes), 0,
                 addMinutes(zeroTwin(dt), minutes), 0)

AddSeconds ==
    /\ AtRest
    /\ \E seconds \in AddSecondsArgs :
       /\ addSecondsInRange(dt, seconds)
       /\ Called("addSeconds", <<seconds>>, addSeconds(dt, seconds), 0,
                 addSeconds(zeroTwin(dt), seconds), 0)

AddMilliseconds ==
    /\ AtRest
    /\ \E milliseconds \in AddMillisecondsArgs :
       /\ addMillisecondsInRange(dt, milliseconds)
       /\ Called("addMilliseconds", <<milliseconds>>,
                 addMilliseconds(dt, milliseconds), 0,
                 addMilliseconds(zeroTwin(dt), milliseconds), 0)

\* The class method isValid, called with 3 to 7 arguments: the trailing
\* parameters left out take their default, 0.
withDefaults(a) == a \o [i \in 1 .. (7 - Len(a)) |-> 0]

IsValid ==
    /\ AtRest
    /\ \E d \in ValidYMD \cup InvalidYMD \cup MoreInvalidYMD,
          t \in ValidHMSM \cup InvalidHMSM \cup MoreInvalidHMSM,
          n \in 3 .. 7 :
       LET a == SubSeq(d \o t, 1, n)
           f == withDefaults(a)
           r == isValid(f[1], f[2], f[3], f[4], f[5], f[6], f[7])
       IN  Called("isValid", a, dt, r, dt, r)

\* The free operator-(const Datetime&, const Datetime&), with this object
\* on the left.
OperatorMinus ==
    /\ AtRest
    /\ \E date \in DateArgs, time \in TimeArgs :
       /\ isValidDateTime(date, time)
       /\ LET rhs == DatetimeFromDateTime(date, time)
          IN  Called("operator-", <<date, time>>, dt, operatorMinus(dt, rhs),
                     dt, operatorMinus(zeroTwin(dt), rhs))

\* The values an operand of a comparison takes.
CompareValues ==
    { DatetimeFromDateTime(a[1], a[2]) :
          a \in { b \in DateArgs \X TimeArgs : isValidDateTime(b[1], b[2]) } }

\* The free operator== and operator!=, with this object on the left.
OperatorEqNe ==
    /\ AtRest
    /\ \E rhs \in CompareValues :
          Called("operator==", <<rhs.date, rhs.time>>, dt,
                 [eq |-> operatorEq(dt, rhs), ne |-> operatorNe(dt, rhs)],
                 dt, 0)

\* The free operator<, operator<=, operator> and operator>=, with this
\* object on the left, called within their assertion.
OperatorOrdering ==
    /\ AtRest
    /\ \E rhs \in CompareValues :
       /\ orderable(dt, rhs)
       /\ Called("operator<", <<rhs.date, rhs.time>>, dt,
                 [lt |-> operatorLt(dt, rhs), le |-> operatorLe(dt, rhs),
                  gt |-> operatorGt(dt, rhs), ge |-> operatorGe(dt, rhs),
                  eq |-> operatorEq(dt, rhs), ne |-> operatorNe(dt, rhs)],
                 dt, 0)

\* The versions the streaming methods are called with.
VersionArgs == { 0, maxSupportedBdexVersion(0), 2 }

\* The values assigned to the object between two streaming calls.
AssignValues ==
    { Datetime, DatetimeFromFields(2012, 2, 29, 23, 59, 59, 999),
      DatetimeFromFields(9999, 12, 31, 0, 0, 0, 0) }

\* The (serial date, milliseconds) pairs an input stream holds: a value, the
\* default value, a valid date with the default time, and dates and times
\* out of range.
InputValues ==
    { << Date_fromYearMonthDay(2013, 1, 6), Time_fromFields(20, 43, 0, 0) >>,
      << Date_default, Time_default >>,
      << Date_fromYearMonthDay(2013, 1, 6), Time_default >>,
      << 0, 0 >>,
      << Date_max + 1, 0 >>,
      << Date_fromYearMonthDay(2013, 1, 6), k_MILLISECONDS_PER_DAY + 1 >>,
      << Date_default, -1 >> }

\* The pairs of which every proper prefix of the bytes is an input as well.
TruncatedValues ==
    { << Date_fromYearMonthDay(2013, 1, 6), Time_fromFields(20, 43, 0, 0) >>,
      << Date_fromYearMonthDay(2013, 1, 6), Time_default >> }

Encoded(p) == Stream_bytes24(p[1]) \o Stream_bytes32(p[2])

InputStreams ==
    { Encoded(p) : p \in InputValues }
      \cup { SubSeq(Encoded(p), 1, n) : p \in TruncatedValues, n \in 0 .. 6 }

StreamAtRest == op = "" /\ steps < MaxStreamSteps

\* A call that may change the stream: sent becomes the value written when
\* bdexStreamOut has filled an empty stream, and is empty otherwise.
CalledOnStream(name, a, v, s, g) ==
    /\ pre' = dt
    /\ op' = name
    /\ args' = a
    /\ dt' = v
    /\ ret' = 0
    /\ twin' = v
    /\ tret' = 0
    /\ steps' = steps + 1
    /\ bdexPre' = [stream |-> bdex, sent |-> sent]
    /\ bdex' = s
    /\ sent' = g

OperatorAssign ==
    /\ StreamAtRest
    /\ \E rhs \in AssignValues :
          Called("operator=", <<rhs.date, rhs.time>>, operatorAssign(dt, rhs),
                 0, operatorAssign(dt, rhs), 0)

BdexStreamOut ==
    /\ StreamAtRest
    /\ Len(bdex.data) + 7 <= MaxStreamLen
    /\ \E version \in VersionArgs :
          CalledOnStream("bdexStreamOut", <<version>>, dt,
                         bdexStreamOut(dt, bdex, version),
                         IF bdex = Stream_empty /\ version = 1
                         THEN <<dt>> ELSE <<>>)

BdexStreamIn ==
    /\ StreamAtRest
    /\ \E version \in VersionArgs :
          LET r == bdexStreamIn(dt, bdex, version)
          IN  CalledOnStream("bdexStreamIn", <<version>>, r.val, r.stream, <<>>)

\* The caller takes a new input stream, holding bytes received.
OpenInput ==
    /\ op = ""
    /\ \E data \in InputStreams :
       /\ bdex' = [valid |-> TRUE, data |-> data]
       /\ bdex' # bdex
       /\ sent' = <<>>
       /\ bdexPre' = [stream |-> bdex', sent |-> <<>>]
       /\ UNCHANGED <<dt, pre, op, args, ret, twin, tret, steps>>

\* The largest bsls::Types::Int64, 2^63 - 1.
Int64Max ==
    [neg |-> FALSE,
     mag |-> [i \in 1 .. WideLimbs |->
                 IF i < 5 THEN WideBase - 1 ELSE IF i = 5 THEN 127 ELSE 0]]

\* The milliseconds from 0001/01/01 00:00:00.000 to 9999/12/31 23:59:59.999.
MaxTotalMsec ==
    Wide_addToMagnitude(Wide_mul(Wide_fromInt(Date_max - 1), k_MILLISECONDS_PER_DAY),
                        k_MILLISECONDS_PER_DAY - 1)

\* 64-bit arguments of a scalar adder that counts in the given unit: small
\* ones of either sign, the largest of either sign that any value accepts,
\* the next larger one and the largest of the type.
WideArgs(unit) ==
    { Wide_fromInt(k) : k \in { -25, -1, 0, 1, 25 } }
      \cup { Wide_div(MaxTotalMsec, unit),
             Wide_neg(Wide_div(MaxTotalMsec, unit)),
             Wide_addToMagnitude(Wide_div(MaxTotalMsec, unit), 1),
             Int64Max }

\* A scalar adder called within its contract with a 64-bit argument.  The
\* record of the call holds what scalarAdderWidths finds; a value that its
\* type does not hold is undefined behaviour, after which the object has any
\* value.
CalledInt64(name, unit) ==
    \E n \in WideArgs(unit) :
       /\ scalarAdderInContract(dt, n, unit)
       /\ \E v \in IF allFit(scalarAdderWidths(dt, n, unit))
                   THEN { scalarAdderInt64(dt, n, unit) }
                   ELSE CompareValues :
             Called(name, <<n>>, v, scalarAdderWidths(dt, n, unit),
                    v, scalarAdderWidths(zeroTwin(dt), n, unit))

AddHoursInt64 == AtRest /\ CalledInt64("addHours", k_MILLISECONDS_PER_HOUR)

AddMinutesInt64 == AtRest /\ CalledInt64("addMinutes", k_MILLISECONDS_PER_MINUTE)

AddSecondsInt64 == AtRest /\ CalledInt64("addSeconds", k_MILLISECONDS_PER_SECOND)

AddMillisecondsInt64 == AtRest /\ CalledInt64("addMilliseconds", 1)

Next ==
    \/ Return
    \/ OperatorPlusAssign
    \/ OperatorMinusAssign
    \/ SetDatetime
    \/ SetDatetimeIfValid
    \/ SetDate
    \/ SetYearDay
    \/ SetYearMonthDay
    \/ SetTime
    \/ SetTimeFields
    \/ SetHour
    \/ SetMinute
    \/ SetSecond
    \/ SetMillisecond
    \/ AddDays
    \/ AddTime
    \/ AddHours
    \/ AddMinutes
    \/ AddSeconds
    \/ AddMilliseconds
    \/ OperatorMinus

Spec == Init /\ [][Next]_vars

\* The class methods, which read no object.
NextClass ==
    \/ Return
    \/ IsValid

SpecClass == Init /\ [][NextClass]_vars

\* The comparison operators.
NextCompare ==
    \/ Return
    \/ OperatorEqNe
    \/ OperatorOrdering

SpecCompare == Init /\ [][NextCompare]_vars

\* BDEX streaming.
NextStream ==
    \/ Return
    \/ OperatorAssign
    \/ BdexStreamOut
    \/ BdexStreamIn
    \/ OpenInput

SpecStream == Init /\ [][NextStream]_vars

\* The scalar adders with arguments of 64 bits.
NextInt64 ==
    \/ Return
    \/ AddHoursInt64
    \/ AddMinutesInt64
    \/ AddSecondsInt64
    \/ AddMillisecondsInt64

SpecInt64 == Init /\ [][NextInt64]_vars

----------------------------------------------------------------------------
(* Properties.                                                             *)

Manipulators ==
    { "operator+=", "operator-=", "setDatetime", "setDatetimeIfValid",
      "setDate", "setYearDay", "setYearMonthDay", "setTime", "setTimeFields",
      "setHour", "setMinute", "setSecond", "setMillisecond", "addDays",
      "addTime", "addHours", "addMinutes", "addSeconds", "addMilliseconds" }

ScalarAdders == { "addHours", "addMinutes", "addSeconds", "addMilliseconds" }

\* The milliseconds in the unit a scalar adder counts in.
unitOf(name) ==
    CASE name = "addHours" -> k_MILLISECONDS_PER_HOUR
      [] name = "addMinutes" -> k_MILLISECONDS_PER_MINUTE
      [] name = "addSeconds" -> k_MILLISECONDS_PER_SECOND
      [] name = "addMilliseconds" -> 1

\* C1 (invariant I1): in every state reached from a constructor by setters,
\* adders and operator+= / operator-=, each called within its precondition,
\* the date part is a valid date, the time part is a valid time, and
\* isValid(date(), time()) holds: the time part is 24:00:00.000 only if the
\* date part is 0001/01/01.
C1_CompositeValidity ==
    /\ 1 <= dt.date /\ dt.date <= Date_max
    /\ 0 <= dt.time /\ dt.time <= Time_default
    /\ isValidDateTime(dt.date, dt.time)
    /\ (dt.time = Time_default => dt.date = Date_default)

\* C1 witness: setDate has moved the default-constructed value to another
\* date, and the time part is 00:00:00.000.
C1_Witness ==
    /\ op = "setDate"
    /\ pre = Datetime
    /\ dt.date = Date_fromYearMonthDay(2013, 1, 6)
    /\ dt.time = Time_zero

\* C2 as claimed: every manipulator called on the default-constructed value
\* leaves the value, and returns the value, that the same call leaves and
\* returns on Datetime(1, 1, 1, 0, 0, 0, 0).
C2_AsClaimed ==
    (op \in Manipulators /\ pre = Datetime) =>
        (operatorEq(dt, twin) /\ ret = tret)

\* C2 as amended: every manipulator called on the default-constructed value
\* leaves the value, and returns the value, that the same call leaves and
\* returns on Datetime(1, 1, 1, 0, 0, 0, 0), except a setDatetimeIfValid that
\* fails: that one returns the same non-zero value on both and leaves each
\* object as it was (24:00:00.000 on the one, 00:00:00.000 on the other).
C2_DefaultActsAsMidnight ==
    (op \in Manipulators /\ pre = Datetime) =>
        /\ ret = tret
        /\ IF op = "setDatetimeIfValid" /\ ret # k_SUCCESS
           THEN dt = pre /\ twin = DatetimeFromFields(1, 1, 1, 0, 0, 0, 0)
           ELSE operatorEq(dt, twin)

\* C2 witness: addMilliseconds(1) on the default-constructed value.
C2_Witness ==
    /\ op = "addMilliseconds"
    /\ args = <<1>>
    /\ pre = Datetime
    /\ dt = DatetimeFromFields(1, 1, 1, 0, 0, 0, 1)
    /\ twin = dt

\* C3: addHours, addMinutes, addSeconds and addMilliseconds are exact on a
\* value that is not the default one: the time part stays within
\* [00:00:00.000, 23:59:59.999] and the linear millisecond count (days times
\* the milliseconds of a day, plus the milliseconds since midnight) grows by
\* the argument times the unit, for arguments of either sign.
C3_CarryAdditionExact ==
    (op \in ScalarAdders /\ pre.time # Time_default) =>
        /\ 0 <= dt.time /\ dt.time < k_MILLISECONDS_PER_DAY
        /\ 1 <= dt.date /\ dt.date <= Date_max
        /\ (dt.date - pre.date) * k_MILLISECONDS_PER_DAY + (dt.time - pre.time)
             = args[1] * unitOf(op)

\* C3 witness: Datetime(2013, 1, 6, 20, 43) after addHours(6) and
\* addSeconds(9) is 2013/01/07 02:43:09.000.
C3_Witness ==
    /\ op = "addSeconds"
    /\ args = <<9>>
    /\ pre = addHours(DatetimeFromFields(2013, 1, 6, 20, 43, 0, 0), 6)
    /\ dt = DatetimeFromFields(2013, 1, 7, 2, 43, 9, 0)

\* C4: each scalar adder leaves the value that addTime with that one argument
\* leaves and that operator+= with the interval of that length leaves; and
\* addTime(h, mi, s, ms) leaves the value that addHours(h), addMinutes(mi),
\* addSeconds(s), addMilliseconds(ms) leave when called one after the other,
\* whenever every value on the way is in range.
C4_ScalarAddersAreIntervalPath ==
    /\ op = "addHours" =>
          /\ dt = addTime(pre, args[1], 0, 0, 0)
          /\ dt = operatorPlusAssign(pre, Interval_fromFields(0, args[1], 0, 0, 0))
    /\ op = "addMinutes" =>
          /\ dt = addTime(pre, 0, args[1], 0, 0)
          /\ dt = operatorPlusAssign(pre, Interval_fromFields(0, 0, args[1], 0, 0))
    /\ op = "addSeconds" =>
          /\ dt = addTime(pre, 0, 0, args[1], 0)
          /\ dt = operatorPlusAssign(pre, Interval_fromFields(0, 0, 0, args[1], 0))
    /\ op = "addMilliseconds" =>
          /\ dt = addTime(pre, 0, 0, 0, args[1])
          /\ dt = operatorPlusAssign(pre, Interval_fromFields(0, 0, 0, 0, args[1]))
    /\ op = "addTime" =>
          LET v1 == addHours(pre, args[1])
              v2 == addMinutes(v1, args[2])
              v3 == addSeconds(v2, args[3])
              v4 == addMilliseconds(v3, args[4])
          IN  ( /\ addHoursInRange(pre, args[1])
                /\ addMinutesInRange(v1, args[2])
                /\ addSecondsInRange(v2, args[3])
                /\ addMillisecondsInRange(v3, args[4]) ) => dt = v4

\* C4 witness: addTime(6, 0, 9) on Datetime(2013, 1, 6, 20, 43).
C4_Witness ==
    /\ op = "addTime"
    /\ args = <<6, 0, 9, 0>>
    /\ pre = DatetimeFromFields(2013, 1, 6, 20, 43, 0, 0)
    /\ dt = DatetimeFromFields(2013, 1, 7, 2, 43, 9, 0)

\* C5: on a value that is not the default one, addHours(24 * k) leaves the
\* value addDays(k) leaves, for k of either sign.
C5_HoursToDays ==
    (op = "addHours" /\ pre.time # Time_default /\ args[1] % 24 = 0) =>
        dt = addDays(pre, args[1] \div 24)

\* C5 witness: addHours(240) on Datetime(2013, 1, 6, 20, 43).
C5_Witness ==
    /\ op = "addHours"
    /\ args = <<240>>
    /\ pre = DatetimeFromFields(2013, 1, 6, 20, 43, 0, 0)
    /\ dt = DatetimeFromFields(2013, 1, 16, 20, 43, 0, 0)

\* C6: on a value that is not the default one, addMilliseconds(a) followed
\* by addMilliseconds(b) leaves the value one addMilliseconds(a + b) leaves,
\* whenever the value in between is in range.
C6_MillisecondAdditionAssociative ==
    (op = "addMilliseconds" /\ pre.time # Time_default) =>
        \A a \in AddMillisecondsArgs :
            LET b   == args[1] - a
                mid == addMilliseconds(pre, a)
            IN  (addMillisecondsInRange(pre, a) /\ addMillisecondsInRange(mid, b))
                    => addMilliseconds(mid, b) = dt

\* C6 witness: addMilliseconds(-1) at midnight, which is also
\* addMilliseconds(86400000) followed by addMilliseconds(-86400001).
C6_Witness ==
    /\ op = "addMilliseconds"
    /\ args = <<-1>>
    /\ pre = DatetimeFromFields(2013, 1, 6, 0, 0, 0, 0)
    /\ dt = DatetimeFromFields(2013, 1, 5, 23, 59, 59, 999)
    /\ addMillisecondsInRange(pre, 86400000)
    /\ dt = addMilliseconds(addMilliseconds(pre, 86400000), -86400001)

\* C7: for a value v that is not the default one and an interval i of either
\* sign with v + i in range, (v + i) - v is i and (v + i) - i is v.
C7_IntervalAddSubtractInverse ==
    (op = "operator+=" /\ pre.time # Time_default) =>
        LET sum == operatorPlus(pre, args)
        IN  /\ dt = sum
            /\ operatorMinus(sum, pre) = args
            /\ operatorMinusInterval(sum, args) = pre

\* C7 witness: operator+= with the interval of -246 hours, -10 seconds and
\* 1000 milliseconds.
C7_Witness ==
    /\ op = "operator+="
    /\ args = Interval_fromFields(0, -246, 0, -10, 1000)
    /\ pre = DatetimeFromFields(2013, 1, 6, 20, 43, 0, 0)
    /\ dt = DatetimeFromFields(2012, 12, 27, 14, 42, 51, 0)

\* C8: for a and b that are not the default value, (a - b) + b is a and
\* b + (a - b) is a.
C8_DifferenceThenAdd ==
    (op = "operator-" /\ pre.time # Time_default /\ args[2] # Time_default) =>
        LET b == DatetimeFromDateTime(args[1], args[2])
        IN  /\ operatorPlus(b, ret) = pre
            /\ operatorPlusIntervalFirst(ret, b) = pre

\* C8 witness: a has the later date and the smaller time of day.
C8_Witness ==
    /\ op = "operator-"
    /\ pre.time # Time_default
    /\ args[2] # Time_default
    /\ pre.date > args[1]
    /\ pre.time < args[2]
    /\ ret[1] >= 0

\* C9: isValid(year, month, day, hour, minute, second, millisecond), with the
\* trailing arguments left out taken as 0, is true exactly when the date
\* fields are a valid Date, the time fields are a valid Time (hour 24 only
\* with minute, second and millisecond 0), and the hour is not 24 or the
\* date is 0001/01/01; the call changes no state.
C9_IsValidFields ==
    op = "isValid" =>
        LET f(i) == IF i <= Len(args) THEN args[i] ELSE 0
            timeOk == \/ /\ f(4) \in 0 .. 23
                         /\ f(5) \in 0 .. 59
                         /\ f(6) \in 0 .. 59
                         /\ f(7) \in 0 .. 999
                      \/ f(4) = 24 /\ f(5) = 0 /\ f(6) = 0 /\ f(7) = 0
        IN  /\ ret = ( /\ Date_isValidYearMonthDay(f(1), f(2), f(3))
                       /\ timeOk
                       /\ (f(4) # 24 \/ (f(1) = 1 /\ f(2) = 1 /\ f(3) = 1)) )
            /\ dt = pre

\* C9 witness: isValid(2013, 1, 6, 24) is false although the date and the
\* time are each valid.
C9_Witness ==
    /\ op = "isValid"
    /\ args = <<2013, 1, 6, 24>>
    /\ ret = FALSE

\* C10: setDatetimeIfValid returns 0 exactly when isValid is true of its
\* arguments, and then the value has those seven fields; otherwise it
\* returns a non-zero value and leaves the date part and the time part as
\* they were.
C10_SetDatetimeIfValid ==
    op = "setDatetimeIfValid" =>
        LET ok == isValid(args[1], args[2], args[3], args[4], args[5], args[6],
                          args[7])
        IN  /\ (ret = 0) = ok
            /\ ok => /\ dt.date = Date_fromYearMonthDay(args[1], args[2], args[3])
                     /\ Time_hour(dt.time) = args[4]
                     /\ Time_minute(dt.time) = args[5]
                     /\ Time_second(dt.time) = args[6]
                     /\ Time_millisecond(dt.time) = args[7]
            /\ ~ok => /\ ret # 0
                      /\ dt.date = pre.date
                      /\ dt.time = pre.time

\* C10 witness: setDatetimeIfValid(2013, 1, 6, 24, 0, 0, 0) fails on the
\* default-constructed value and leaves it as it was.
C10_Witness ==
    /\ op = "setDatetimeIfValid"
    /\ args = <<2013, 1, 6, 24, 0, 0, 0>>
    /\ ret = k_FAILURE
    /\ pre = Datetime
    /\ dt = Datetime

\* C11: for every seven fields of which isValid is true, the seven-field
\* constructor, and setDatetime on any prior value, give a value whose
\* accessors year, month, day, hour, minute, second and millisecond return
\* those fields.
C11_FieldRoundTrip ==
    (op \in {"DatetimeFromFields", "setDatetime"}) =>
        /\ isValid(args[1], args[2], args[3], args[4], args[5], args[6], args[7])
        /\ Datetime_fields(dt) = args

\* C11 witness: setDatetime(9999, 12, 31, 20, 43, 0, 0) on a value with
\* another date and another time.
C11_Witness ==
    /\ op = "setDatetime"
    /\ args = <<9999, 12, 31, 20, 43, 0, 0>>
    /\ pre = DatetimeFromFields(2012, 2, 29, 23, 59, 59, 999)
    /\ Datetime_fields(dt) = args

\* The setters of the class, by the names the calls are recorded under.
Setters ==
    { "setDatetime", "setDatetimeIfValid", "setDate", "setYearDay",
      "setYearMonthDay", "setTime", "setTimeFields", "setHour", "setMinute",
      "setSecond", "setMillisecond" }

\* The four attributes of the time part.
Datetime_timeFields(v) ==
    << Datetime_hour(v), Datetime_minute(v), Datetime_second(v),
       Datetime_millisecond(v) >>

\* C12 as claimed: from the default-constructed value, every setter call
\* other than setHour(24) gives the time part 00:00:00.000.  It fails: the
\* setters of the time give the time they are passed (setMinute(59) gives
\* 00:59:00.000), and setTime(24, 0, 0, 0), setTime(Time()) and
\* setDatetime(1, 1, 1, 24, 0, 0, 0) give the reserved value.
C12_AsClaimed ==
    (pre = Datetime /\ op \in Setters /\ ~(op = "setHour" /\ args = <<24>>)) =>
        dt.time = Time_zero

\* C12: from the default-constructed value, the date setters give the time
\* part 00:00:00.000; setHour, setMinute, setSecond and setMillisecond give
\* 00:00:00.000 with the one named attribute replaced (setHour(24) gives
\* 24:00:00.000); setTime and setDatetime give the time they are passed; a
\* failing setDatetimeIfValid leaves the value as it is.  The time part is the
\* reserved value afterwards exactly when the hour passed is 24, when the
\* Time passed is the reserved value, or when setDatetimeIfValid fails.
C12_SentinelNormalization ==
    (pre = Datetime /\ op \in Setters) =>
        /\ op \in {"setDate", "setYearDay", "setYearMonthDay"} =>
               dt.time = Time_zero
        /\ op = "setHour" => Datetime_timeFields(dt) = <<args[1], 0, 0, 0>>
        /\ op = "setMinute" => Datetime_timeFields(dt) = <<0, args[1], 0, 0>>
        /\ op = "setSecond" => Datetime_timeFields(dt) = <<0, 0, args[1], 0>>
        /\ op = "setMillisecond" =>
               Datetime_timeFields(dt) = <<0, 0, 0, args[1]>>
        /\ op = "setTime" => dt.time = args[1]
        /\ op = "setTimeFields" => Datetime_timeFields(dt) = args
        /\ op = "setDatetime" =>
               Datetime_timeFields(dt) = SubSeq(args, 4, 7)
        /\ op = "setDatetimeIfValid" =>
               IF ret = k_SUCCESS
               THEN Datetime_timeFields(dt) = SubSeq(args, 4, 7)
               ELSE dt = Datetime
        /\ dt.time = Time_default <=>
               \/ op = "setHour" /\ args = <<24>>
               \/ op = "setTime" /\ args = <<Time_default>>
               \/ op = "setTimeFields" /\ args[1] = 24
               \/ op = "setDatetime" /\ args[4] = 24
               \/ op = "setDatetimeIfValid" /\ (ret # k_SUCCESS \/ args[4] = 24)

\* C12 witness: setYearMonthDay(2012, 2, 29) on the default-constructed value
\* has left 00:00:00.000.
C12_Witness ==
    /\ pre = Datetime
    /\ op = "setYearMonthDay"
    /\ args = <<2012, 2, 29>>
    /\ dt = DatetimeFromFields(2012, 2, 29, 0, 0, 0, 0)

\* The right operand of the comparison recorded in the state.
rhsOf(a) == DatetimeFromDateTime(a[1], a[2])

\* The number of TRUE among the elements of a sequence of booleans.
RECURSIVE CountTrue(_)
CountTrue(bs) ==
    IF bs = <<>> THEN 0
    ELSE (IF Head(bs) THEN 1 ELSE 0) + CountTrue(Tail(bs))

\* C13: for values a, b, c none of which has the default time, exactly one of
\* a < b, a == b, a > b is true, and a < b with b < c implies a < c.
C13_OrderingTotality ==
    (op = "operator<") =>
        /\ orderable(pre, rhsOf(args))
        /\ CountTrue(<<ret.lt, ret.eq, ret.gt>>) = 1
        /\ \A c \in CompareValues :
               (orderable(rhsOf(args), c) /\ ret.lt /\ operatorLt(rhsOf(args), c))
                   => operatorLt(pre, c)

\* C13 witness: a = 2013-01-06 00:00, b = 2013-01-06 20:43 on the same date and
\* a later c = 9999-12-31 00:00: a < b, b < c and a < c.
C13_Witness ==
    /\ op = "operator<"
    /\ pre = DatetimeFromFields(2013, 1, 6, 0, 0, 0, 0)
    /\ rhsOf(args) = DatetimeFromFields(2013, 1, 6, 20, 43, 0, 0)
    /\ ret.lt /\ ~ret.eq /\ ~ret.gt
    /\ operatorLt(rhsOf(args), DatetimeFromFields(9999, 12, 31, 0, 0, 0, 0))
    /\ operatorLt(pre, DatetimeFromFields(9999, 12, 31, 0, 0, 0, 0))

\* C14: a == b is true exactly when the date parts are equal and the time
\* parts are equal, and a != b is its negation; the default-constructed value
\* has the attributes (1, 1, 1, 24, 0, 0, 0), is equal to
\* Datetime(1, 1, 1, 24, 0, 0, 0) and is not equal to
\* Datetime(1, 1, 1, 0, 0, 0, 0).
C14_EqualityFieldWise ==
    /\ (op = "Datetime") => Datetime_fields(dt) = <<1, 1, 1, 24, 0, 0, 0>>
    /\ (op = "operator==") =>
        /\ ret.eq <=> (Datetime_date(pre) = args[1] /\ Datetime_time(pre) = args[2])
        /\ ret.eq <=> Datetime_fields(pre) = Datetime_fields(rhsOf(args))
        /\ ret.ne <=> ~ret.eq
        /\ (pre = Datetime /\ rhsOf(args) = DatetimeFromFields(1, 1, 1, 24, 0, 0, 0))
               => ret.eq
        /\ (pre = Datetime /\ rhsOf(args) = DatetimeFromFields(1, 1, 1, 0, 0, 0, 0))
               => ~ret.eq

\* C14 witness: the default-constructed value compared with
\* Datetime(1, 1, 1, 0, 0, 0, 0) is not equal.
C14_Witness ==
    /\ op = "operator=="
    /\ pre = Datetime
    /\ rhsOf(args) = DatetimeFromFields(1, 1, 1, 0, 0, 0, 0)
    /\ ~ret.eq /\ ret.ne

\* C15: bdexStreamOut(stream, 1) on a valid stream appends the date part and
\* then the time part, seven bytes and no version; when it has filled an
\* empty stream with the value v, bdexStreamIn(stream, 1) into an object of
\* any value leaves the object equal to v and the stream valid.
C15_BdexRoundTrip ==
    /\ (op = "bdexStreamOut" /\ args = <<1>> /\ bdexPre.stream.valid) =>
        /\ bdex.valid
        /\ bdex.data = bdexPre.stream.data \o Stream_bytes24(Datetime_date(pre))
                                           \o Stream_bytes32(Datetime_time(pre))
        /\ Len(bdex.data) = Len(bdexPre.stream.data) + 7
        /\ dt = pre
    /\ (op = "bdexStreamIn" /\ args = <<1>> /\ bdexPre.sent # <<>>) =>
        /\ operatorEq(dt, bdexPre.sent[1])
        /\ bdex.valid
        /\ bdex.data = <<>>

\* C15 witness: the default value was written, and read into an object
\* that had been assigned 9999-12-31 00:00:00.000 in between.
C15_Witness ==
    /\ op = "bdexStreamIn"
    /\ args = <<1>>
    /\ bdexPre.sent = <<Datetime>>
    /\ pre = DatetimeFromFields(9999, 12, 31, 0, 0, 0, 0)
    /\ dt = Datetime
    /\ bdex.valid

\* C16: with a valid stream and a version other than 1, bdexStreamIn
\* invalidates the stream, reads nothing from it and leaves the object
\* unchanged, and bdexStreamOut invalidates the stream and writes nothing.
C16_UnsupportedVersion ==
    (/\ op \in {"bdexStreamIn", "bdexStreamOut"}
     /\ args[1] # 1
     /\ bdexPre.stream.valid) =>
        /\ ~bdex.valid
        /\ bdex.data = bdexPre.stream.data
        /\ dt = pre

\* C16 witness: bdexStreamIn with version 2 on a stream that holds a whole
\* value other than the object's.
C16_Witness ==
    /\ op = "bdexStreamIn"
    /\ args = <<2>>
    /\ bdexPre.stream =
           [valid |-> TRUE,
            data |-> Encoded(<< Date_fromYearMonthDay(2013, 1, 6),
                                Time_fromFields(20, 43, 0, 0) >>)]
    /\ pre = Datetime
    /\ dt = Datetime
    /\ ~bdex.valid

C18_AddDays ==
    (op = "addDays") =>
        /\ Datetime_date(dt) = Datetime_date(pre) + args[1]
        /\ pre # Datetime => Datetime_time(dt) = Datetime_time(pre)
        /\ pre = Datetime => Datetime_time(dt) = Time_zero
        /\ Datetime_time(dt) # Time_default

\* C18 witness: addDays(0) on the default-constructed value leaves
\* 0001/01/01 00:00:00.000.
C18_Witness ==
    /\ op = "addDays"
    /\ args = <<0>>
    /\ pre = Datetime
    /\ dt = DatetimeFromFields(1, 1, 1, 0, 0, 0, 0)

\* C19: setDate, setYearDay and setYearMonthDay give the date part the date
\* passed and nothing else: the time part is unchanged when the value is not
\* the default one, and on the default value it becomes 00:00:00.000, also
\* when the date passed is 0001/01/01, so it is never 24:00:00.000
\* afterwards.
C19_DateSetters ==
    (op \in {"setDate", "setYearDay", "setYearMonthDay"}) =>
        /\ op = "setDate" => Datetime_date(dt) = args[1]
        /\ op = "setYearDay" =>
               <<Datetime_year(dt), Datetime_dayOfYear(dt)>> = args
        /\ op = "setYearMonthDay" =>
               <<Datetime_year(dt), Datetime_month(dt), Datetime_day(dt)>> = args
        /\ pre # Datetime => Datetime_time(dt) = Datetime_time(pre)
        /\ pre = Datetime => Datetime_time(dt) = Time_zero
        /\ Datetime_time(dt) # Time_default

\* C19 witness: setYearDay(1, 1) on the default-constructed value leaves
\* 0001/01/01 00:00:00.000.
C19_Witness ==
    /\ op = "setYearDay"
    /\ args = <<1, 1>>
    /\ pre = Datetime
    /\ dt = DatetimeFromFields(1, 1, 1, 0, 0, 0, 0)

\* C20: a - b is the interval of date(a) - date(b) days plus the signed
\* difference of the times since midnight, a default time counting as
\* 00:00:00.000: in the two-limb form, msec is that difference of the times
\* modulo one day and days is the difference of the dates less the day
\* borrowed.  The result is the one for the operand with hour 0 when an
\* operand is the default value, and Datetime(2013,1,7,2,43,9) -
\* Datetime(2013,1,6,20,43,0) is 6 hours and 9 seconds.
C20_Difference ==
    (op = "operator-") =>
        LET a == pre
            b == rhsOf(args)
            timeDiff == Time_zeroIfDefault(Datetime_time(a))
                          - Time_zeroIfDefault(Datetime_time(b))
            borrow == IF timeDiff < 0 THEN 1 ELSE 0
        IN  /\ ret[1] = Datetime_date(a) - Datetime_date(b) - borrow
            /\ ret[2] = timeDiff + borrow * k_MILLISECONDS_PER_DAY
            /\ 0 <= ret[2] /\ ret[2] < k_MILLISECONDS_PER_DAY
            /\ ret = tret
            /\ ret = operatorMinus(zeroTwin(a), zeroTwin(b))
            /\ (/\ a = DatetimeFromFields(2013, 1, 7, 2, 43, 9, 0)
                /\ b = DatetimeFromFields(2013, 1, 6, 20, 43, 0, 0))
                   => ret = Interval_fromFields(0, 6, 0, 9, 0)

\* C20 witness: Datetime(2013,1,7,2,43,9) - Datetime(2013,1,6,20,43,0).
C20_Witness ==
    /\ op = "operator-"
    /\ pre = DatetimeFromFields(2013, 1, 7, 2, 43, 9, 0)
    /\ rhsOf(args) = DatetimeFromFields(2013, 1, 6, 20, 43, 0, 0)
    /\ ret = Interval_fromFields(0, 6, 0, 9, 0)

\* C21: for a and b without the default time, a < b exactly when the date of
\* a is before the date of b, or the dates are equal and the time of a is
\* before the time of b; a <= b exactly when a < b or a == b; a > b exactly
\* when b < a; a >= b exactly when not a < b.
C21_OrderingLexicographic ==
    (op = "operator<") =>
        LET a == pre
            b == rhsOf(args)
        IN  /\ ret.lt <=>
                   \/ Datetime_date(a) < Datetime_date(b)
                   \/ /\ Datetime_date(a) = Datetime_date(b)
                      /\ Datetime_time(a) < Datetime_time(b)
            /\ ret.le <=> (ret.lt \/ ret.eq)
            /\ ret.gt <=> operatorLt(b, a)
            /\ ret.ge <=> ~ret.lt

\* C21 witness: a has the later date and the earlier time of day, so the date
\* decides: a > b and a >= b, neither a < b nor a <= b.
C21_Witness ==
    /\ op = "operator<"
    /\ pre = DatetimeFromFields(9999, 12, 31, 0, 0, 0, 0)
    /\ rhsOf(args) = DatetimeFromFields(2013, 1, 6, 20, 43, 0, 0)
    /\ ret.gt /\ ret.ge /\ ~ret.lt /\ ~ret.le

\* The sequence f with its i-th element replaced by x.
withField(f, i, x) == [f EXCEPT ![i] = x]

\* The attributes of the time part a one-attribute setter starts from: those
\* of the value, with hour 0 in place of 24 on the default value.
timeFieldsBefore(v) ==
    IF v = Datetime THEN <<0, 0, 0, 0>> ELSE Datetime_timeFields(v)

\* C22: setHour, setMinute, setSecond, setMillisecond and both setTime leave
\* the date part as it is.  setHour(h) with h < 24, setMinute, setSecond and
\* setMillisecond replace the one attribute they name, the others being those
\* of the value before, with hour 0 on the default value; setHour(24), called
\* on the date 0001/01/01 only, leaves exactly the default value; setTime
\* leaves the time it is passed.
C22_TimeSetters ==
    (op \in {"setHour", "setMinute", "setSecond", "setMillisecond", "setTime",
             "setTimeFields"}) =>
        /\ Datetime_date(dt) = Datetime_date(pre)
        /\ (op = "setHour" /\ args[1] = 24) =>
               Datetime_date(pre) = Date_default /\ dt = Datetime
        /\ (op = "setHour" /\ args[1] # 24) =>
               Datetime_timeFields(dt) = withField(timeFieldsBefore(pre), 1, args[1])
        /\ op = "setMinute" =>
               Datetime_timeFields(dt) = withField(timeFieldsBefore(pre), 2, args[1])
        /\ op = "setSecond" =>
               Datetime_timeFields(dt) = withField(timeFieldsBefore(pre), 3, args[1])
        /\ op = "setMillisecond" =>
               Datetime_timeFields(dt) = withField(timeFieldsBefore(pre), 4, args[1])
        /\ op = "setTime" => Datetime_time(dt) = args[1]
        /\ op = "setTimeFields" => Datetime_timeFields(dt) = args

\* C22 witness: setHour(24) on 0001/01/01 23:59:59.999 leaves the default
\* value.
C22_Witness ==
    /\ op = "setHour"
    /\ args = <<24>>
    /\ pre = DatetimeFromFields(1, 1, 1, 23, 59, 59, 999)
    /\ dt = Datetime

\* C23 as claimed: in the four scalar adders the remainder handed to the time
\* part is in [0, msPerDay) and delta = wholeDays * msPerDay + remainder.  It
\* fails for negative arguments: addHours(-1) hands -3600000 to the time part
\* with 0 whole days.
C23_AsClaimed ==
    (op \in ScalarAdders) =>
        LET delta == args[1] * unitOf(op)
            d     == msecDecomposition(delta)
        IN  /\ 0 <= d.normMsec /\ d.normMsec < k_MILLISECONDS_PER_DAY
            /\ delta = d.wholeDays * k_MILLISECONDS_PER_DAY + d.normMsec

\* C23: in the four scalar adders the millisecond delta is decomposed by
\* truncation toward zero: delta = wholeDays * msPerDay + remainder with the
\* remainder strictly between -msPerDay and msPerDay, and neither of the two
\* has the sign opposite to delta's.  The time part takes the remainder of
\* either sign and returns a carry of -1, 0 or 1 day, with which the time
\* part ends in [0, msPerDay) and the date moves by wholeDays plus the carry.
C23_TruncatingDecomposition ==
    (op \in ScalarAdders) =>
        LET delta == args[1] * unitOf(op)
            d     == msecDecomposition(delta)
            carry == (Datetime_date(dt) - Datetime_date(pre)) - d.wholeDays
        IN  /\ delta = d.wholeDays * k_MILLISECONDS_PER_DAY + d.normMsec
            /\ -k_MILLISECONDS_PER_DAY < d.normMsec
            /\ d.normMsec < k_MILLISECONDS_PER_DAY
            /\ delta >= 0 => (d.normMsec >= 0 /\ d.wholeDays >= 0)
            /\ delta <= 0 => (d.normMsec <= 0 /\ d.wholeDays <= 0)
            /\ carry \in {-1, 0, 1}
            /\ 0 <= Datetime_time(dt)
            /\ Datetime_time(dt) < k_MILLISECONDS_PER_DAY
            /\ Time_zeroIfDefault(Datetime_time(pre)) + d.normMsec
                   = carry * k_MILLISECONDS_PER_DAY + Datetime_time(dt)

\* C23 witness: addHours(-246) on 2013/01/06 20:43:00.000 decomposes into
\* -10 whole days and -21600000 milliseconds, and leaves 2012/12/27 14:43.
C23_Witness ==
    /\ op = "addHours"
    /\ args = <<-246>>
    /\ pre = DatetimeFromFields(2013, 1, 6, 20, 43, 0, 0)
    /\ msecDecomposition(-246 * k_MILLISECONDS_PER_HOUR)
           = [normMsec |-> -21600000, wholeDays |-> -10]
    /\ dt = DatetimeFromFields(2012, 12, 27, 14, 43, 0, 0)

\* C24: in every call of addHours, addMinutes, addSeconds and
\* addMilliseconds whose result is a valid Datetime, the product of the
\* argument and the unit fits in a 64-bit signed integer, and the remainder,
\* the whole-day count and their sum with the carry of the time part fit in
\* a 32-bit signed integer: the casts change no value, and the date moves by
\* the whole days of the delta plus the carry.
C24_NoOverflowInContract ==
    (op \in ScalarAdders) =>
        /\ ret.totalMsecFits
        /\ ret.normMsecFits
        /\ ret.wholeDaysFits
        /\ ret.numDaysFits
        /\ Wide_mul(args[1], unitOf(op)).mag
               = Wide_addToMagnitude(
                     Wide_mul(ret.wholeDays, k_MILLISECONDS_PER_DAY),
                     IF ret.normMsec < 0 THEN -ret.normMsec ELSE ret.normMsec).mag
        /\ Datetime_date(dt) - Datetime_date(pre)
               = Wide_toInt(ret.wholeDays) + ret.carry
        /\ 1 <= Datetime_date(dt) /\ Datetime_date(dt) <= Date_max

\* C24 witness: addMilliseconds of the most milliseconds a value accepts, from
\* 0001/01/01 00:00:00.000 to 9999/12/31 23:59:59.999, a number of 49 bits.
C24_Witness ==
    /\ op = "addMilliseconds"
    /\ args = <<MaxTotalMsec>>
    /\ ~Wide_fits(args[1], 32)
    /\ pre = DatetimeFromFields(1, 1, 1, 0, 0, 0, 0)
    /\ dt = DatetimeFromFields(9999, 12, 31, 23, 59, 59, 999)
    /\ allFit(ret)

\* The stream held, before the call, the seven bytes of a date sub-value and
\* a time sub-value that are each valid on their own.
holdsValidSubValues(s) ==
    /\ s.valid
    /\ Len(s.data) >= 7
    /\ Date_isValidSerial(Stream_int24(SubSeq(s.data, 1, 3)))
    /\ Time_isValidMilliseconds(Stream_int32(SubSeq(s.data, 4, 7)))

\* C25: after a bdexStreamIn(stream, 1) that succeeds on a stream whose date
\* sub-value and time sub-value are each valid, the time part of the object
\* is 24:00:00.000 only if its date part is 0001-01-01, that is,
\* isValid(date(), time()) holds.  The code assigns the two sub-values
\* without calling isValid(date, time): the formula is violated.
C25_AsClaimed ==
    (/\ op = "bdexStreamIn"
     /\ args = <<1>>
     /\ holdsValidSubValues(bdexPre.stream)
     /\ bdex.valid) =>
        /\ isValidDateTime(dt.date, dt.time)
        /\ Datetime_time(dt) = Time_default => Datetime_date(dt) = Date_default

\* The stream held, before the call, the three bytes of a valid date
\* sub-value at its front.
holdsValidDate(s) ==
    /\ s.valid
    /\ Len(s.data) >= 3
    /\ Date_isValidSerial(Stream_int24(SubSeq(s.data, 1, 3)))

\* C26: bdexStreamIn changes the object only when the stream is valid on
\* entry, the version is 1 and the stream is valid after the date and the
\* time have been read; on a stream invalid on entry it changes neither the
\* object nor the stream; when the date sub-value was read and the stream
\* failed before the time sub-value was complete, the date part and the time
\* part are both what they were before the call.
C26_AllOrNothing ==
    (op = "bdexStreamIn") =>
        /\ dt # pre => (bdexPre.stream.valid /\ args = <<1>> /\ bdex.valid)
        /\ ~bdexPre.stream.valid => (dt = pre /\ bdex = bdexPre.stream)
        /\ (/\ args = <<1>>
            /\ holdsValidDate(bdexPre.stream)
            /\ ~bdex.valid) =>
               /\ Datetime_date(dt) = Datetime_date(pre)
               /\ Datetime_time(dt) = Datetime_time(pre)

\* C26 witness: 2012/02/29 23:59:59.999 reads a stream that ends after the
\* date 2013-01-06 and two bytes of the time, and is left as it was.
C26_Witness ==
    /\ op = "bdexStreamIn"
    /\ args = <<1>>
    /\ pre = DatetimeFromFields(2012, 2, 29, 23, 59, 59, 999)
    /\ holdsValidDate(bdexPre.stream)
    /\ Len(bdexPre.stream.data) = 5
    /\ Stream_int24(SubSeq(bdexPre.stream.data, 1, 3))
           = Date_fromYearMonthDay(2013, 1, 6)
    /\ ~bdex.valid
    /\ dt = pre

====
